---- MODULE Spec2Model ----
(***************************************************************************)
(* Model of edmss/stochastic.py: the patch tiler (image_batching), the     *)
(* patch fuser (image_fuse) and the EDM sampling loop (edm_sampler).       *)
(*                                                                         *)
(* Numbers are exact rationals extended with the IEEE special values       *)
(* (NaN, +Inf, -Inf); tensors are rank-4 arrays indexed from 0.            *)
(***************************************************************************)
EXTENDS Integers, Sequences, FiniteSets, TLC

\* ------------------------------------------------------------------------
\* Bounds of the explored inputs
\* ------------------------------------------------------------------------
MaxImg == 5
MaxPatch == 4
MaxOverlap == 3
MaxBoundary == 2
MaxSampImg == 3
MaxSampPatch == 2
MaxSteps == 2

\* ------------------------------------------------------------------------
\* Floating point values: <<n, d>> with d > 0 is n/d in lowest terms,
\* <<0, 0>> is NaN, <<1, 0>> is +Inf and <<-1, 0>> is -Inf.
\* ------------------------------------------------------------------------
Abs(a) == IF a < 0 THEN -a ELSE a

Sgn(a) == IF a < 0 THEN -1 ELSE IF a = 0 THEN 0 ELSE 1

Max(a, b) == IF a < b THEN b ELSE a

Min(a, b) == IF a < b THEN a ELSE b

RECURSIVE GCD(_, _)
GCD(a, b) == IF b = 0 THEN a ELSE GCD(b, a % b)

Norm(n, d) ==
    IF d = 0 THEN <<Sgn(n), 0>>
    ELSE LET g == GCD(Abs(n), Abs(d))
         IN  <<(Sgn(d) * n) \div g, Abs(d) \div g>>

F(k) == <<k, 1>>

NaN == <<0, 0>>

Inf == <<1, 0>>

IsNaN(a) == a = NaN

IsFinite(a) == a[2] # 0

FAdd(a, b) ==
    IF a[2] = 0 /\ b[2] = 0
    THEN (IF a = b THEN a ELSE NaN)
    ELSE Norm(a[1] * b[2] + b[1] * a[2], a[2] * b[2])

FNeg(a) == <<-a[1], a[2]>>

FSub(a, b) == FAdd(a, FNeg(b))

FMul(a, b) == Norm(a[1] * b[1], a[2] * b[2])

FRecip(a) == IF a = NaN THEN NaN ELSE Norm(a[2], a[1])

FDiv(a, b) == FMul(a, FRecip(b))

\* comparisons are false as soon as an operand is NaN
FLess(a, b) ==
    /\ ~IsNaN(a) /\ ~IsNaN(b)
    /\ a # b
    /\ IF a[2] = 0 THEN a[1] < 0
       ELSE IF b[2] = 0 THEN b[1] > 0
       ELSE a[1] * b[2] < b[1] * a[2]

FLeq(a, b) == ~IsNaN(a) /\ ~IsNaN(b) /\ (a = b \/ FLess(a, b))

RECURSIVE FPow(_, _)
FPow(a, k) == IF k = 0 THEN F(1) ELSE FMul(a, FPow(a, k - 1))

RECURSIVE ISqrtFrom(_, _)
ISqrtFrom(n, r) == IF (r + 1) * (r + 1) > n THEN r ELSE ISqrtFrom(n, r + 1)

\* square root, rounded down to a multiple of 1/d (exact on squares)
FSqrt(a) ==
    IF IsNaN(a) THEN NaN
    ELSE IF a[2] = 0 THEN (IF a[1] > 0 THEN Inf ELSE NaN)
    ELSE IF a[1] < 0 THEN NaN
    ELSE Norm(ISqrtFrom(a[1] * a[2], 0), a[2])

\* ------------------------------------------------------------------------
\* Python and tensor-library primitives
\* ------------------------------------------------------------------------
\* math.ceil(a / b) for integers, b # 0
CeilDiv(a, b) ==
    IF b > 0 THEN -((-a) \div b) ELSE -(a \div (-b))

\* a slice bound i applied to an axis of length len
PyIdx(i, len) == IF i < 0 THEN Max(i + len, 0) ELSE Min(i, len)

\* the half-open index range selected by start:stop on an axis of length len
PySlice(start, stop, len) ==
    LET lo == PyIdx(start, len)
        hi == PyIdx(stop, len)
    IN  [lo |-> lo, ext |-> Max(hi - lo, 0)]

\* an operand extent src can be broadcast onto an extent dst
Broadcastable(src, dst) == src = dst \/ src = 1

BIdx(i, src) == IF src = 1 THEN 0 ELSE i

Idx(n, c, h, w) == (0 .. n - 1) \X (0 .. c - 1) \X (0 .. h - 1) \X (0 .. w - 1)

Tensor(n, c, h, w, f(_, _, _, _)) ==
    [shape |-> <<n, c, h, w>>,
     at |-> [p \in Idx(n, c, h, w) |-> f(p[1], p[2], p[3], p[4])]]

Zero4(bi, ci, r, col) == F(0)

One4(bi, ci, r, col) == F(1)

Zeros(n, c, h, w) == Tensor(n, c, h, w, Zero4)

Ones(n, c, h, w) == Tensor(n, c, h, w, One4)

None == [shape |-> <<>>, at |-> <<>>]

Ok(t) == [status |-> "ok", allocated |-> TRUE, value |-> t]

Raise(e, alloc) == [status |-> e, allocated |-> alloc, value |-> None]

\* source index read by output index j of a reflection pad along one axis
ReflIdx(j, pad_l, len) ==
    LET i_start == Max(0, -pad_l)
        o_start == Max(0, pad_l)
        ip == IF j < pad_l THEN 2 * pad_l - j
              ELSE IF j < len + pad_l THEN j
              ELSE 2 * (len + pad_l - 1) - j
    IN  ip - o_start + i_start

ReflectionPad2d(input, pad_l, pad_r, pad_t, pad_b) ==
    LET n == input.shape[1]
        c == input.shape[2]
        h == input.shape[3]
        w == input.shape[4]
        oh == h + pad_t + pad_b
        ow == w + pad_l + pad_r
        g(bi, ci, r, col) ==
            input.at[<<bi, ci, ReflIdx(r, pad_t, h), ReflIdx(col, pad_l, w)>>]
    IN  IF ~(pad_l < w /\ pad_r < w /\ pad_t < h /\ pad_b < h)
        THEN Raise("RuntimeError", TRUE)
        ELSE IF ~(ow >= 1 \/ oh >= 1) \/ ow < 0 \/ oh < 0
        THEN Raise("RuntimeError", TRUE)
        ELSE Ok(Tensor(n, c, oh, ow, g))

\* ------------------------------------------------------------------------
\* Patch geometry along one axis, as image_batching and image_fuse both
\* compute it
\* ------------------------------------------------------------------------
stride(patch_shape, overlap_pix, boundary_pix) ==
    patch_shape - overlap_pix - boundary_pix

patch_num(img_shape, patch_shape, overlap_pix, boundary_pix) ==
    CeilDiv(img_shape, stride(patch_shape, overlap_pix, boundary_pix))

padded_shape(img_shape, patch_shape, overlap_pix, boundary_pix) ==
    stride(patch_shape, overlap_pix, boundary_pix)
        * (patch_num(img_shape, patch_shape, overlap_pix, boundary_pix) - 1)
    + patch_shape + boundary_pix

pad_right(img_shape, patch_shape, overlap_pix, boundary_pix) ==
    padded_shape(img_shape, patch_shape, overlap_pix, boundary_pix)
    - img_shape - boundary_pix

residual(img_shape, patch_shape, overlap_pix, boundary_pix) ==
    patch_shape - pad_right(img_shape, patch_shape, overlap_pix, boundary_pix)

\* ------------------------------------------------------------------------
\* image_batching: full image --> batch of patches
\* ------------------------------------------------------------------------
\* the batch slot of tile (x_index, y_index)
Slot(x_index, y_index, patch_num_y, batch_size) ==
    (x_index * patch_num_y + y_index) * batch_size

\* the padded window of tile k, with input_interp appended along the
\* channel axis when it is given
TileWindow(input_padded, input_interp, k, patch_num_y, patch_shape_y, patch_shape_x, overlap_pix, boundary_pix) ==
    LET x_index == k \div patch_num_y
        y_index == k % patch_num_y
        x_start == x_index * (patch_shape_x - overlap_pix - boundary_pix)
        y_start == y_index * (patch_shape_y - overlap_pix - boundary_pix)
        ys == PySlice(y_start, y_start + patch_shape_y, input_padded.shape[3])
        xs == PySlice(x_start, x_start + patch_shape_x, input_padded.shape[4])
        n == input_padded.shape[1]
        c == input_padded.shape[2]
        win(bi, ci, r, col) ==
            input_padded.at[<<bi, ci, ys.lo + r, xs.lo + col>>]
        cat(bi, ci, r, col) ==
            IF ci < c THEN win(bi, ci, r, col)
            ELSE input_interp.at[<<bi, ci - c, r, col>>]
    IN  IF input_interp = None
        THEN Ok(Tensor(n, c, ys.ext, xs.ext, win))
        ELSE IF <<n, ys.ext, xs.ext>> #
                <<input_interp.shape[1], input_interp.shape[3],
                  input_interp.shape[4]>>
        THEN Raise("RuntimeError", TRUE)
        ELSE Ok(Tensor(n, c + input_interp.shape[2], ys.ext, xs.ext, cat))

\* output[slot : slot + batch_size,] = src
AssignSlot(output, slot, batch_size, src) ==
    LET bs == PySlice(slot, slot + batch_size, output.shape[1])
        ss == src.shape
        set(bi, ci, r, col) ==
            IF bi >= bs.lo /\ bi < bs.lo + bs.ext
            THEN src.at[<<BIdx(bi - bs.lo, ss[1]), BIdx(ci, ss[2]),
                          BIdx(r, ss[3]), BIdx(col, ss[4])>>]
            ELSE output.at[<<bi, ci, r, col>>]
    IN  IF /\ Broadcastable(ss[1], bs.ext)
           /\ Broadcastable(ss[2], output.shape[2])
           /\ Broadcastable(ss[3], output.shape[3])
           /\ Broadcastable(ss[4], output.shape[4])
        THEN Ok(Tensor(output.shape[1], output.shape[2], output.shape[3],
                       output.shape[4], set))
        ELSE Raise("RuntimeError", TRUE)

RECURSIVE BatchTiles(_, _, _, _, _, _, _, _, _, _, _)
BatchTiles(output, input_padded, input_interp, k, tiles, patch_num_y, patch_shape_y, patch_shape_x, batch_size, overlap_pix, boundary_pix) ==
    IF k >= tiles THEN Ok(output)
    ELSE LET w == TileWindow(input_padded, input_interp, k, patch_num_y,
                             patch_shape_y, patch_shape_x, overlap_pix,
                             boundary_pix)
             a == AssignSlot(output,
                             Slot(k \div patch_num_y, k % patch_num_y,
                                  patch_num_y, batch_size),
                             batch_size, w.value)
         IN  IF w.status # "ok" THEN w
             ELSE IF a.status # "ok" THEN a
             ELSE BatchTiles(a.value, input_padded, input_interp, k + 1,
                             tiles, patch_num_y, patch_shape_y,
                             patch_shape_x, batch_size, overlap_pix,
                             boundary_pix)

image_batching(input, img_shape_y, img_shape_x, patch_shape_y, patch_shape_x, batch_size, overlap_pix, boundary_pix, input_interp) ==
    IF \/ stride(patch_shape_x, overlap_pix, boundary_pix) = 0
       \/ stride(patch_shape_y, overlap_pix, boundary_pix) = 0
    THEN Raise("ZeroDivisionError", FALSE)
    ELSE
    LET patch_num_x ==
            patch_num(img_shape_x, patch_shape_x, overlap_pix, boundary_pix)
        patch_num_y ==
            patch_num(img_shape_y, patch_shape_y, overlap_pix, boundary_pix)
        padded_shape_x ==
            padded_shape(img_shape_x, patch_shape_x, overlap_pix, boundary_pix)
        padded_shape_y ==
            padded_shape(img_shape_y, patch_shape_y, overlap_pix, boundary_pix)
        pad_x_right ==
            pad_right(img_shape_x, patch_shape_x, overlap_pix, boundary_pix)
        pad_y_right ==
            pad_right(img_shape_y, patch_shape_y, overlap_pix, boundary_pix)
        input_padded ==
            ReflectionPad2d(input, boundary_pix, pad_x_right, boundary_pix,
                            pad_y_right)
        channels == IF input_interp = None THEN input.shape[2]
                    ELSE input.shape[2] + input_interp.shape[2]
        output == Zeros(patch_num_x * patch_num_y * batch_size, channels,
                        patch_shape_y, patch_shape_x)
        \* range(patch_num_x) and range(patch_num_y) are empty for
        \* non-positive counts
        loops == IF patch_num_x > 0 /\ patch_num_y > 0
                 THEN patch_num_x * patch_num_y ELSE 0
    IN  IF padded_shape_x < 0 \/ padded_shape_y < 0
        THEN Raise("RuntimeError", FALSE)
        ELSE IF input_padded.status # "ok" THEN input_padded
        ELSE IF patch_num_x * patch_num_y * batch_size < 0
        THEN Raise("RuntimeError", TRUE)
        ELSE BatchTiles(output, input_padded.value, input_interp, 0, loops,
                        patch_num_y, patch_shape_y, patch_shape_x, batch_size,
                        overlap_pix, boundary_pix)

\* ------------------------------------------------------------------------
\* image_fuse: batch of patches --> full image
\* ------------------------------------------------------------------------
\* destination and source slices of one tile along one axis: the last tile
\* writes start: from boundary_pix:residual+boundary_pix, every other tile
\* writes start:start+patch_shape-2*boundary_pix from
\* boundary_pix:patch_shape-boundary_pix
FuseDst(last, start, patch_shape, boundary_pix, img_shape) ==
    IF last THEN PySlice(start, img_shape, img_shape)
    ELSE PySlice(start, start + patch_shape - 2 * boundary_pix, img_shape)

FuseSrc(last, patch_shape, boundary_pix, res, len) ==
    IF last THEN PySlice(boundary_pix, res + boundary_pix, len)
    ELSE PySlice(boundary_pix, patch_shape - boundary_pix, len)

\* acc[:, :, dy, dx] += src[slot, :, sy, sx]
AddRegion(acc, dy, dx, src, slot, sy, sx) ==
    LET add(bi, ci, r, col) ==
            IF /\ r >= dy.lo /\ r < dy.lo + dy.ext
               /\ col >= dx.lo /\ col < dx.lo + dx.ext
            THEN FAdd(acc.at[<<bi, ci, r, col>>],
                      src.at[<<slot.lo + BIdx(bi, slot.ext),
                               BIdx(ci, src.shape[2]),
                               sy.lo + BIdx(r - dy.lo, sy.ext),
                               sx.lo + BIdx(col - dx.lo, sx.ext)>>])
            ELSE acc.at[<<bi, ci, r, col>>]
    IN  IF /\ Broadcastable(slot.ext, acc.shape[1])
           /\ Broadcastable(src.shape[2], acc.shape[2])
           /\ Broadcastable(sy.ext, dy.ext)
           /\ Broadcastable(sx.ext, dx.ext)
        THEN Ok(Tensor(acc.shape[1], acc.shape[2], acc.shape[3],
                       acc.shape[4], add))
        ELSE Raise("RuntimeError", TRUE)

RECURSIVE FuseTiles(_, _, _, _, _, _, _, _, _, _, _, _, _, _, _)
FuseTiles(output, count_map, input, k, patch_num_x, patch_num_y, img_shape_y, img_shape_x, patch_shape_y, patch_shape_x, batch_size, overlap_pix, boundary_pix, residual_y, residual_x) ==
    IF k >= patch_num_x * patch_num_y
    THEN [status |-> "ok", output |-> output, count_map |-> count_map]
    ELSE
    LET x_index == k \div patch_num_y
        y_index == k % patch_num_y
        x_start == x_index * (patch_shape_x - overlap_pix - boundary_pix)
        y_start == y_index * (patch_shape_y - overlap_pix - boundary_pix)
        last_x == x_index = patch_num_x - 1
        last_y == y_index = patch_num_y - 1
        dy == FuseDst(last_y, y_start, patch_shape_y, boundary_pix,
                      img_shape_y)
        dx == FuseDst(last_x, x_start, patch_shape_x, boundary_pix,
                      img_shape_x)
        sy == FuseSrc(last_y, patch_shape_y, boundary_pix, residual_y,
                      input.shape[3])
        sx == FuseSrc(last_x, patch_shape_x, boundary_pix, residual_x,
                      input.shape[4])
        slot == PySlice(Slot(x_index, y_index, patch_num_y, batch_size),
                        Slot(x_index, y_index, patch_num_y, batch_size)
                            + batch_size,
                        input.shape[1])
        one_map == Ones(1, 1, input.shape[3], input.shape[4])
        o == AddRegion(output, dy, dx, input, slot, sy, sx)
        c == AddRegion(count_map, dy, dx, one_map, PySlice(0, 1, 1), sy, sx)
    IN  IF o.status # "ok"
        THEN [status |-> o.status, output |-> output, count_map |-> count_map]
        ELSE IF c.status # "ok"
        THEN [status |-> c.status, output |-> o.value,
              count_map |-> count_map]
        ELSE FuseTiles(o.value, c.value, input, k + 1, patch_num_x,
                       patch_num_y, img_shape_y, img_shape_x, patch_shape_y,
                       patch_shape_x, batch_size, overlap_pix, boundary_pix,
                       residual_y, residual_x)

\* the accumulation loop of image_fuse: the sums and the count map it ends
\* with, or the exception that stopped it
FuseAccumulate(input, img_shape_y, img_shape_x, patch_shape_y, patch_shape_x, batch_size, overlap_pix, boundary_pix) ==
    IF \/ stride(patch_shape_x, overlap_pix, boundary_pix) = 0
       \/ stride(patch_shape_y, overlap_pix, boundary_pix) = 0
    THEN [status |-> "ZeroDivisionError", output |-> None, count_map |-> None]
    ELSE
    LET patch_num_x ==
            patch_num(img_shape_x, patch_shape_x, overlap_pix, boundary_pix)
        patch_num_y ==
            patch_num(img_shape_y, patch_shape_y, overlap_pix, boundary_pix)
        residual_x ==
            residual(img_shape_x, patch_shape_x, overlap_pix, boundary_pix)
        residual_y ==
            residual(img_shape_y, patch_shape_y, overlap_pix, boundary_pix)
        output == Zeros(batch_size, input.shape[2], img_shape_y, img_shape_x)
        count_map == Zeros(1, 1, img_shape_y, img_shape_x)
    IN  IF patch_num_x > 0 /\ patch_num_y > 0
        THEN FuseTiles(output, count_map, input, 0, patch_num_x, patch_num_y,
                       img_shape_y, img_shape_x, patch_shape_y, patch_shape_x,
                       batch_size, overlap_pix, boundary_pix, residual_y,
                       residual_x)
        ELSE [status |-> "ok", output |-> output, count_map |-> count_map]

\* output / count_map, count_map broadcast over batch and channel
DivideByCount(output, count_map) ==
    LET q(bi, ci, r, col) ==
            FDiv(output.at[<<bi, ci, r, col>>], count_map.at[<<0, 0, r, col>>])
    IN  Tensor(output.shape[1], output.shape[2], output.shape[3],
               output.shape[4], q)

image_fuse(input, img_shape_y, img_shape_x, patch_shape_y, patch_shape_x, batch_size, overlap_pix, boundary_pix) ==
    LET acc == FuseAccumulate(input, img_shape_y, img_shape_x, patch_shape_y,
                              patch_shape_x, batch_size, overlap_pix,
                              boundary_pix)
    IN  IF acc.status # "ok"
        THEN Raise(acc.status, acc.status # "ZeroDivisionError")
        ELSE Ok(DivideByCount(acc.output, acc.count_map))

\* ------------------------------------------------------------------------
\* State
\* ------------------------------------------------------------------------
VARIABLES
    geo,        \* arguments of the image_batching / image_fuse calls
    tpc,        \* "start", "batched" or "fused"
    batch,      \* what image_batching returned or raised
    fuse_in,    \* the patch batch handed to image_fuse
    acc,        \* sums and count map at the end of image_fuse's loop
    fused,      \* what image_fuse returned or raised
    args,       \* arguments of the edm_sampler call
    pc,         \* position of the edm_sampler call
    i,          \* loop index
    t_steps,    \* the noise schedule, t_steps[k + 1] is step k
    x_lr,       \* conditioning handed to the denoiser
    global_index, \* position grid handed to the denoiser, or None
    x_next,     \* the sampler state
    x_cur,      \* the state at the start of the step
    x_hat,      \* the state after the noise increase
    t_hat,      \* the noise level after the noise increase
    d_cur,      \* derivative estimate of the predictor
    noise,      \* what randn_like returned in this step
    handed,     \* the tensor given to the denoiser in its last call
    calls,      \* numbers of calls made inside the loop
    err         \* the exception that ended the call, or "none"

tvars == <<geo, tpc, batch, fuse_in, acc, fused>>

svars == <<args, pc, i, t_steps, x_lr, global_index, x_next, x_cur, x_hat,
           t_hat, d_cur, noise, handed, calls, err>>

vars == <<geo, tpc, batch, fuse_in, acc, fused, args, pc, i, t_steps, x_lr,
          global_index, x_next, x_cur, x_hat, t_hat, d_cur, noise, handed,
          calls, err>>

\* ------------------------------------------------------------------------
\* Calls of image_batching and image_fuse on arbitrary geometries
\* ------------------------------------------------------------------------
Geometries ==
    [img_shape_y : 1 .. MaxImg, img_shape_x : 1 .. MaxImg,
     patch_shape_y : 1 .. MaxPatch, patch_shape_x : 1 .. MaxPatch,
     batch_size : {1},
     overlap_pix : 0 .. MaxOverlap, boundary_pix : 0 .. MaxBoundary,
     interp : BOOLEAN]

\* an image whose pixels are pairwise different
Image(g) ==
    LET v(bi, ci, r, col) ==
            F(1 + col + g.img_shape_x * (r + g.img_shape_y * bi))
    IN  Tensor(g.batch_size, 1, g.img_shape_y, g.img_shape_x, v)

\* per-patch conditioning at patch resolution
Interp(g) ==
    IF g.interp
    THEN Zeros(g.batch_size, 1, g.patch_shape_y, g.patch_shape_x)
    ELSE None

StrideX(g) == stride(g.patch_shape_x, g.overlap_pix, g.boundary_pix)

StrideY(g) == stride(g.patch_shape_y, g.overlap_pix, g.boundary_pix)

PatchNumX(g) ==
    patch_num(g.img_shape_x, g.patch_shape_x, g.overlap_pix, g.boundary_pix)

PatchNumY(g) ==
    patch_num(g.img_shape_y, g.patch_shape_y, g.overlap_pix, g.boundary_pix)

\* a denoiser output for the geometry: one value per patch
Denoised(g) ==
    LET v(bi, ci, r, col) == F(1 + bi)
    IN  Tensor(PatchNumX(g) * PatchNumY(g) * g.batch_size, 1,
               g.patch_shape_y, g.patch_shape_x, v)

FuseInputs ==
    (IF tpc = "batched" /\ batch.status = "ok" THEN {batch.value} ELSE {})
    \cup (IF tpc = "start" /\ StrideX(geo) > 0 /\ StrideY(geo) > 0
          THEN {Denoised(geo)} ELSE {})

NoResult == Raise("not called", FALSE)

NoAcc == [status |-> "not called", output |-> None, count_map |-> None]

\* calls made by edm_sampler: of the denoiser, of image_batching and
\* image_fuse inside the loop, of image_batching before the loop, and the
\* loop transitions completed
NoCalls == [net |-> 0, batching |-> 0, fuse |-> 0, pre |-> 0, steps |-> 0]

\* no edm_sampler call is in progress
SamplerIdle ==
    /\ args = [idle |-> TRUE]
    /\ pc = "idle"
    /\ i = 0
    /\ t_steps = <<>>
    /\ x_lr = None
    /\ global_index = None
    /\ x_next = None
    /\ x_cur = None
    /\ x_hat = None
    /\ t_hat = NaN
    /\ d_cur = None
    /\ noise = None
    /\ handed = None
    /\ calls = NoCalls
    /\ err = "none"

\* no image_batching / image_fuse call is made on its own
TilingIdle ==
    /\ geo = [idle |-> TRUE]
    /\ tpc = "idle"
    /\ batch = NoResult
    /\ fuse_in = None
    /\ acc = NoAcc
    /\ fused = NoResult

InitT ==
    /\ geo \in Geometries
    /\ tpc = "start"
    /\ batch = NoResult
    /\ fuse_in = None
    /\ acc = NoAcc
    /\ fused = NoResult
    /\ SamplerIdle

CallBatching ==
    /\ tpc = "start"
    /\ batch' = image_batching(Image(geo), geo.img_shape_y, geo.img_shape_x,
                               geo.patch_shape_y, geo.patch_shape_x,
                               geo.batch_size, geo.overlap_pix,
                               geo.boundary_pix, Interp(geo))
    /\ tpc' = "batched"
    /\ UNCHANGED <<geo, fuse_in, acc, fused>>
    /\ UNCHANGED svars

CallFuse ==
    /\ tpc \in {"start", "batched"}
    /\ \E input \in FuseInputs :
        /\ fuse_in' = input
        /\ acc' = FuseAccumulate(input, geo.img_shape_y, geo.img_shape_x,
                                 geo.patch_shape_y, geo.patch_shape_x,
                                 geo.batch_size, geo.overlap_pix,
                                 geo.boundary_pix)
        /\ fused' = image_fuse(input, geo.img_shape_y, geo.img_shape_x,
                               geo.patch_shape_y, geo.patch_shape_x,
                               geo.batch_size, geo.overlap_pix,
                               geo.boundary_pix)
    /\ tpc' = "fused"
    /\ UNCHANGED <<geo, batch>>
    /\ UNCHANGED svars

NextT == CallBatching \/ CallFuse

SpecT == InitT /\ [][NextT]_vars

\* ------------------------------------------------------------------------
\* The denoiser (external): its minimum sigma, its sigma rounding and its
\* forward pass
\* ------------------------------------------------------------------------
\* "exact": every sigma is supported; "grid": the supported sigmas are the
\* positive integers and a sigma is rounded to the nearest of them
round_sigma(net, t) ==
    IF net.round = "exact" \/ ~IsFinite(t) THEN t
    ELSE F(Max(1, (2 * t[1] + t[2]) \div (2 * t[2])))

\* "identity" returns its noisy input, "zero" returns a zero batch of the
\* same shape
Denoiser(net, x_batch) ==
    IF net.kind = "identity" THEN x_batch
    ELSE Zeros(x_batch.shape[1], x_batch.shape[2], x_batch.shape[3],
               x_batch.shape[4])

\* ------------------------------------------------------------------------
\* edm_sampler
\* ------------------------------------------------------------------------
RECURSIVE IPow(_, _)
IPow(a, k) == IF k = 0 THEN 1 ELSE a * IPow(a, k - 1)

\* sigma ** (1 / rho) on the sigmas explored, which are rho-th powers
Root(v, rho) == CHOOSE r \in 0 .. v : IPow(r, rho) = v

\* an exact denoiser supports every sigma >= 0, a grid denoiser the positive
\* integers
Nets ==
    {[sigma_min |-> IF r = "exact" THEN 0 ELSE 1, round |-> r, kind |-> k] :
        r \in {"exact", "grid"}, k \in {"identity", "zero"}}

\* img_shape is an integer: img_shape_x = img_shape_y = img_shape; sigma_min
\* and sigma_max are the rho-th powers of root_min and root_max
SamplerArgs ==
    [img_shape : 1 .. MaxSampImg, patch_shape : 1 .. MaxSampPatch,
     overlap_pix : 0 .. 1, boundary_pix : 0 .. 1,
     num_steps : 1 .. MaxSteps, rho : {2},
     root_min : {1}, root_max : {2},
     S_churn : {0, 1}, net : Nets]

sigma_max(a) == IPow(a.root_max, a.rho)

sigma_min(a) == Max(IPow(a.root_min, a.rho), a.net.sigma_min)

S_min == F(0)

S_max == Inf

S_noise == F(1)

batch_size == 1

img_shape_x(a) == a.img_shape

img_shape_y(a) == a.img_shape

Tiling(a) ==
    a.patch_shape # img_shape_x(a) \/ a.patch_shape # img_shape_y(a)

TStep(a, k) ==
    FPow(FAdd(F(Root(sigma_max(a), a.rho)),
              FMul(FDiv(F(k), F(a.num_steps - 1)),
                   FSub(F(Root(sigma_min(a), a.rho)),
                        F(Root(sigma_max(a), a.rho))))),
         a.rho)

Schedule(a) ==
    [k \in 1 .. a.num_steps |-> round_sigma(a.net, TStep(a, k - 1))]
    \o <<F(0)>>

Latents(a) ==
    LET v(bi, ci, r, col) == F(1 + col + img_shape_x(a) * r)
    IN  Tensor(batch_size, 1, img_shape_y(a), img_shape_x(a), v)

ImgLr(a) == Zeros(batch_size, 1, img_shape_y(a), img_shape_x(a))

Grid(a) ==
    LET v(bi, ci, r, col) == IF ci = 0 THEN F(r) ELSE F(col)
    IN  Tensor(batch_size, 2, img_shape_y(a), img_shape_x(a), v)

TScale(t, k) ==
    LET v(bi, ci, r, col) == FMul(t.at[<<bi, ci, r, col>>], k)
    IN  Tensor(t.shape[1], t.shape[2], t.shape[3], t.shape[4], v)

TAdd(t, u) ==
    LET v(bi, ci, r, col) ==
            FAdd(t.at[<<bi, ci, r, col>>], u.at[<<bi, ci, r, col>>])
    IN  Tensor(t.shape[1], t.shape[2], t.shape[3], t.shape[4], v)

TSub(t, u) == TAdd(t, TScale(u, F(-1)))

TDiv(t, k) ==
    LET v(bi, ci, r, col) == FDiv(t.at[<<bi, ci, r, col>>], k)
    IN  Tensor(t.shape[1], t.shape[2], t.shape[3], t.shape[4], v)

Const(t, k) ==
    LET v(bi, ci, r, col) == k
    IN  Tensor(t.shape[1], t.shape[2], t.shape[3], t.shape[4], v)

NoiseValues == {F(-1), F(1)}

\* a churn that is never zero
GammaOffByOne(a, t_cur) ==
    IF FLeq(S_min, t_cur) /\ FLeq(t_cur, S_max)
    THEN FDiv(F(a.S_churn + 1), F(a.num_steps))
    ELSE F(0)

Gamma(a, t_cur) ==
    IF FLeq(S_min, t_cur) /\ FLeq(t_cur, S_max)
    THEN FDiv(F(a.S_churn), F(a.num_steps))
    ELSE F(0)

THat(a, t_cur) ==
    round_sigma(a.net, FAdd(t_cur, FMul(Gamma(a, t_cur), t_cur)))

XHat(a, x, t_cur, n) ==
    TAdd(x,
         TScale(n, FMul(FSqrt(FSub(FMul(THat(a, t_cur), THat(a, t_cur)),
                                   FMul(t_cur, t_cur))),
                        S_noise)))

\* tile x when tiling is active, run the denoiser, fuse its output; move is
\* whether global_index is moved to the device before the denoiser runs
Denoise(a, x, gidx, move) ==
    LET tiled == IF Tiling(a)
                 THEN image_batching(x, img_shape_y(a), img_shape_x(a),
                                     a.patch_shape, a.patch_shape, batch_size,
                                     a.overlap_pix, a.boundary_pix, None)
                 ELSE Ok(x)
        nb == IF Tiling(a) THEN 1 ELSE 0
        denoised == Denoiser(a.net, tiled.value)
        full == IF Tiling(a)
                THEN image_fuse(denoised, img_shape_y(a), img_shape_x(a),
                                a.patch_shape, a.patch_shape, batch_size,
                                a.overlap_pix, a.boundary_pix)
                ELSE Ok(denoised)
    IN  IF tiled.status # "ok"
        THEN [status |-> tiled.status, value |-> None, handed |-> None,
              batching |-> nb, net |-> 0, fuse |-> 0]
        ELSE IF move /\ gidx = None
        THEN [status |-> "AttributeError", value |-> None, handed |-> None,
              batching |-> nb, net |-> 0, fuse |-> 0]
        ELSE [status |-> full.status, value |-> full.value,
              handed |-> tiled.value, batching |-> nb, net |-> 1,
              fuse |-> nb]

\* d_cur = (x_hat - denoised) / t_hat
DCur(xh, denoised, th) == TDiv(TSub(xh, denoised), th)

\* x_next = x_hat + (t_next - t_hat) * d_cur
Euler(xh, th, t_next, d) == TAdd(xh, TScale(d, FSub(t_next, th)))

\* d_prime = (x_next - denoised) / t_next
DPrime(xn, denoised, t_next) == TDiv(TSub(xn, denoised), t_next)

\* x_next = x_hat + (t_next - t_hat) * (0.5 * d_cur + 0.5 * d_prime)
Heun(xh, th, t_next, d, d_prime) ==
    TAdd(xh,
         TScale(TAdd(TScale(d, Norm(1, 2)), TScale(d_prime, Norm(1, 2))),
                FSub(t_next, th)))

Count(r, done) ==
    [net |-> calls.net + r.net, batching |-> calls.batching + r.batching,
     fuse |-> calls.fuse + r.fuse, pre |-> calls.pre,
     steps |-> calls.steps + done]

InitS ==
    /\ args \in SamplerArgs
    /\ pc = "start"
    /\ i = 0
    /\ t_steps = <<>>
    /\ x_lr = None
    /\ global_index = None
    /\ x_next = None
    /\ x_cur = None
    /\ x_hat = None
    /\ t_hat = NaN
    /\ d_cur = None
    /\ noise = None
    /\ handed = None
    /\ calls = NoCalls
    /\ err = "none"
    /\ TilingIdle

\* the schedule, the tiling of the conditioning and the initial state
Setup ==
    /\ pc = "start"
    /\ LET xl == image_batching(ImgLr(args), img_shape_y(args),
                                img_shape_x(args), args.patch_shape,
                                args.patch_shape, batch_size,
                                args.overlap_pix, args.boundary_pix,
                                Zeros(batch_size, 1, args.patch_shape,
                                      args.patch_shape))
           gi == image_batching(Grid(args), img_shape_y(args),
                                img_shape_x(args), args.patch_shape,
                                args.patch_shape, batch_size,
                                args.overlap_pix, args.boundary_pix, None)
           failed == IF ~Tiling(args) THEN "none"
                     ELSE IF xl.status # "ok" THEN xl.status
                     ELSE IF gi.status # "ok" THEN gi.status
                     ELSE "none"
       IN  /\ t_steps' = Schedule(args)
           /\ err' = failed
           /\ pc' = IF failed = "none" THEN "loop" ELSE "error"
           /\ x_lr' = IF Tiling(args) /\ xl.status = "ok" THEN xl.value
                      ELSE ImgLr(args)
           /\ global_index' = IF Tiling(args) /\ failed = "none"
                              THEN gi.value ELSE None
           /\ x_next' = IF failed = "none"
                        THEN TScale(Latents(args), Schedule(args)[1])
                        ELSE None
           /\ calls' = [calls EXCEPT !.pre =
                           IF ~Tiling(args) THEN 0
                           ELSE IF xl.status # "ok" THEN 1 ELSE 2]
    /\ UNCHANGED <<args, i, x_cur, x_hat, t_hat, d_cur, noise, handed>>
    /\ UNCHANGED tvars

\* x_cur = x_next, then increase the noise temporarily
Churn ==
    /\ pc = "loop"
    /\ i < args.num_steps
    /\ \E n \in NoiseValues :
        /\ noise' = Const(x_next, n)
        /\ x_hat' = XHat(args, x_next, t_steps[i + 1], Const(x_next, n))
    /\ x_cur' = x_next
    /\ t_hat' = THat(args, t_steps[i + 1])
    /\ pc' = "predict"
    /\ UNCHANGED <<args, i, t_steps, x_lr, global_index, x_next, d_cur,
                   handed, calls, err>>
    /\ UNCHANGED tvars

\* Euler step; the corrector is skipped in the last iteration
Predictor ==
    /\ pc = "predict"
    /\ \E r \in {Denoise(args, x_hat, global_index, TRUE)} :
        LET t_next == t_steps[i + 2]
            last == ~(i < args.num_steps - 1)
        IN  IF r.status # "ok"
            THEN /\ pc' = "error"
                 /\ err' = r.status
                 /\ calls' = Count(r, 0)
                 /\ UNCHANGED <<i, x_next, d_cur, handed, noise>>
            ELSE \E d \in {DCur(x_hat, r.value, t_hat)} :
                 /\ d_cur' = d
                 /\ x_next' = Euler(x_hat, t_hat, t_next, d)
                 /\ handed' = r.handed
                 /\ pc' = IF last THEN "loop" ELSE "correct"
                 /\ i' = IF last THEN i + 1 ELSE i
                 /\ noise' = IF last THEN None ELSE noise
                 /\ calls' = Count(r, IF last THEN 1 ELSE 0)
                 /\ UNCHANGED err
    /\ UNCHANGED <<args, t_steps, x_lr, global_index, x_cur, x_hat, t_hat>>
    /\ UNCHANGED tvars

\* 2nd order correction
Corrector ==
    /\ pc = "correct"
    /\ \E r \in {Denoise(args, x_next, global_index, FALSE)} :
        LET t_next == t_steps[i + 2]
        IN  IF r.status # "ok"
            THEN /\ pc' = "error"
                 /\ err' = r.status
                 /\ calls' = Count(r, 0)
                 /\ UNCHANGED <<i, x_next, handed, noise>>
            ELSE \E d_prime \in {DPrime(x_next, r.value, t_next)} :
                 /\ x_next' = Heun(x_hat, t_hat, t_next, d_cur, d_prime)
                 /\ handed' = r.handed
                 /\ pc' = "loop"
                 /\ i' = i + 1
                 /\ noise' = None
                 /\ calls' = Count(r, 1)
                 /\ UNCHANGED err
    /\ UNCHANGED <<args, t_steps, x_lr, global_index, x_cur, x_hat, t_hat,
                   d_cur>>
    /\ UNCHANGED tvars

Return ==
    /\ pc = "loop"
    /\ i = args.num_steps
    /\ pc' = "done"
    /\ UNCHANGED <<args, i, t_steps, x_lr, global_index, x_next, x_cur, x_hat,
                   t_hat, d_cur, noise, handed, calls, err>>
    /\ UNCHANGED tvars

Next == Setup \/ Churn \/ Predictor \/ Corrector \/ Return

Spec == InitS /\ [][Next]_vars

\* ------------------------------------------------------------------------
\* Properties of image_batching and image_fuse (checked under SpecT)
\* ------------------------------------------------------------------------
\* 0 <= overlap_pix, boundary_pix < patch_shape and a positive stride on
\* both axes
ValidGeometry(g) ==
    /\ 0 <= g.overlap_pix /\ 0 <= g.boundary_pix
    /\ g.overlap_pix < g.patch_shape_x /\ g.overlap_pix < g.patch_shape_y
    /\ g.boundary_pix < g.patch_shape_x /\ g.boundary_pix < g.patch_shape_y
    /\ StrideX(g) > 0 /\ StrideY(g) > 0

\* image_fuse was handed what image_batching returned
RoundTrip == tpc = "fused" /\ batch.status = "ok"

ZeroCount ==
    \E p \in DOMAIN acc.count_map.at : acc.count_map.at[p] = F(0)

\* C1: for every geometry with patch_shape # img_shape, a positive stride
\* and overlap_pix > 0, boundary_pix > 0, image_fuse of the patch batch
\* image_batching returned returns the original image, pixel by pixel.
C1_RoundTripIdentity ==
    ( /\ tpc # "idle"
      /\ ~geo.interp
      /\ geo.patch_shape_x # geo.img_shape_x
            \/ geo.patch_shape_y # geo.img_shape_y
      /\ StrideX(geo) > 0 /\ StrideY(geo) > 0
      /\ geo.overlap_pix > 0 /\ geo.boundary_pix > 0 )
    => (RoundTrip => fused.status = "ok" /\ fused.value = Image(geo))

\* C2: for every valid geometry, once image_fuse has accumulated all tiles
\* of the batch image_batching returned, count_map is at least 1 at every
\* pixel of the output.
C2_TileCoverage ==
    (RoundTrip /\ ValidGeometry(geo) /\ acc.status = "ok")
    => \A p \in DOMAIN acc.count_map.at : FLeq(F(1), acc.count_map.at[p])

\* C7: when image_fuse finishes accumulating with a zero count at some
\* pixel, the call ends in an error and returns no tensor (stated for the
\* valid geometries, where no configuration error is due either).
C7_ZeroCountIsFatal ==
    (RoundTrip /\ ValidGeometry(geo) /\ acc.status = "ok" /\ ZeroCount)
    => fused.status # "ok"

\* C8: with overlap_pix or boundary_pix >= patch_shape or a stride <= 0,
\* image_batching and image_fuse raise before any tensor is allocated and
\* return no result.
C8_InvalidGeometryRejected ==
    (tpc # "idle" /\ ~ValidGeometry(geo))
    => /\ tpc = "batched" => batch.status # "ok" /\ ~batch.allocated
       /\ tpc = "fused" => fused.status # "ok" /\ ~fused.allocated

\* the claimed bounds of the fuse regions along one axis
AxisInBounds(img_shape, patch_shape, overlap_pix, boundary_pix) ==
    LET n == patch_num(img_shape, patch_shape, overlap_pix, boundary_pix)
        res == residual(img_shape, patch_shape, overlap_pix, boundary_pix)
    IN  \A k \in 0 .. n - 1 :
            LET start == k * stride(patch_shape, overlap_pix, boundary_pix)
            IN  IF k # n - 1
                THEN start + patch_shape - 2 * boundary_pix <= img_shape
                ELSE /\ img_shape - start = res
                     /\ 0 < res
                     /\ boundary_pix + res <= patch_shape

\* C10: for every valid geometry image_batching accepts and every tile, the
\* region image_fuse writes has the extent of the cropped region it reads: a tile that is not
\* last along an axis ends inside the image, the last tile covers residual
\* pixels with 0 < residual and boundary_pix + residual <= patch_shape, so
\* no accumulation has mismatched extents.
C10_FuseRegionsInBounds ==
    (RoundTrip /\ ValidGeometry(geo))
    => /\ AxisInBounds(geo.img_shape_x, geo.patch_shape_x, geo.overlap_pix,
                       geo.boundary_pix)
       /\ AxisInBounds(geo.img_shape_y, geo.patch_shape_y, geo.overlap_pix,
                       geo.boundary_pix)
       /\ acc.status = "ok"

\* ------------------------------------------------------------------------
\* Properties of edm_sampler (checked under Spec)
\* ------------------------------------------------------------------------
ValidSamplerGeometry(a) ==
    /\ a.overlap_pix < a.patch_shape
    /\ a.boundary_pix < a.patch_shape
    /\ stride(a.patch_shape, a.overlap_pix, a.boundary_pix) > 0

InitialX(a) == TScale(Latents(a), Schedule(a)[1])

\* C3: when patch_shape equals img_shape_x and img_shape_y, edm_sampler
\* calls neither image_batching nor image_fuse, hands x_hat unchanged to the
\* denoiser and never ends in an exception before it returns.
C3_NoTilingPath ==
    (pc # "idle" /\ ~Tiling(args))
    => /\ calls.pre = 0 /\ calls.batching = 0 /\ calls.fuse = 0
       /\ pc = "correct" => handed = x_hat
       /\ pc # "error"

\* C4: the schedule has num_steps + 1 entries, is strictly decreasing, starts
\* at sigma_max and ends at 0, for every num_steps >= 1, sigma_min <
\* sigma_max and rho > 0 (stated for a denoiser that rounds no sigma and a
\* positive sigma_min).
C4_ScheduleShape ==
    ( /\ pc \notin {"idle", "start"}
      /\ args.net.round = "exact"
      /\ sigma_min(args) > 0 )
    => /\ Len(t_steps) = args.num_steps + 1
       /\ \A k \in 1 .. args.num_steps : FLess(t_steps[k + 1], t_steps[k])
       /\ t_steps[1] = F(sigma_max(args))
       /\ t_steps[args.num_steps + 1] = F(0)

\* the state after loop transition k taken from x when no noise is added: a
\* function of the arguments and x alone
NoiseFree(a, gidx, x, k) ==
    LET t_cur == Schedule(a)[k + 1]
        t_next == Schedule(a)[k + 2]
        d == DCur(x, Denoise(a, x, gidx, TRUE).value, t_cur)
        xe == Euler(x, t_cur, t_next, d)
    IN  IF k < a.num_steps - 1
        THEN Heun(x, t_cur, t_next, d,
                  DPrime(xe, Denoise(a, xe, gidx, FALSE).value, t_next))
        ELSE xe

\* C5: with S_churn = 0, gamma is 0 in every step, t_hat is t_cur and x_hat
\* is x_cur whatever randn_like returned; the initial state is the one the
\* arguments determine and the state after every step is the one the
\* arguments and the state before the step determine, so two runs on the
\* same arguments hold the same x after every step and return the same
\* output (equal bit for bit, NaN included).
C5_Determinism ==
    (pc # "idle" /\ args.S_churn = 0)
    => /\ pc \in {"predict", "correct"}
            => /\ Gamma(args, t_steps[i + 1]) = F(0)
               /\ t_hat = t_steps[i + 1]
               /\ x_hat = x_cur
       /\ (pc \in {"loop", "done"} /\ i = 0) => x_next = InitialX(args)
       /\ (pc \in {"loop", "done"} /\ i > 0)
            => x_next = NoiseFree(args, global_index, x_cur, i - 1)

\* a second step of a tiled run without churn, after randn_like returned
\* non-zero noise
C5_Witness ==
    /\ pc = "predict"
    /\ i >= 1
    /\ args.S_churn = 0
    /\ Tiling(args)
    /\ \E p \in DOMAIN noise.at : noise.at[p] # F(0)
    /\ \A p \in DOMAIN x_hat.at : IsFinite(x_hat.at[p])
    /\ x_hat # InitialX(args)

\* C6: without tiling, with S_churn = 0 and a denoiser that returns its
\* input, d_cur is 0 in every predictor step and x is latents * t_steps[0]
\* after every transition and when edm_sampler returns.
C6_IdentityTrajectory ==
    ( /\ pc # "idle"
      /\ ~Tiling(args)
      /\ args.S_churn = 0
      /\ args.net.kind = "identity" )
    => /\ pc # "error"
       /\ pc = "correct" => d_cur = Const(d_cur, F(0))
       /\ pc \in {"loop", "correct", "done"} => x_next = InitialX(args)

\* C9: a call of edm_sampler (with valid geometry arguments, in which
\* neither image_batching nor image_fuse raised) ends by returning after
\* exactly num_steps loop transitions and 2 * num_steps - 1 denoiser calls,
\* each between one image_batching and one image_fuse when tiling is active.
C9_StepStructure ==
    ( /\ pc \in {"done", "error"}
      /\ ValidSamplerGeometry(args)
      /\ err \notin {"RuntimeError", "ZeroDivisionError"} )
    => /\ pc = "done"
       /\ calls.steps = args.num_steps
       /\ calls.net = 2 * args.num_steps - 1
       /\ Tiling(args)
            => calls.batching = calls.net /\ calls.fuse = calls.net
====
